---------------------------- MODULE Spec2Model ----------------------------
(***************************************************************************)
(* State-machine model of youtube_content_machine.py: the configuration    *)
(* loader, the content downloader, the video editor, the thumbnail         *)
(* generator, the uploader and the pipeline orchestrator, with the jobs    *)
(* the background scheduler fires.                                         *)
(*                                                                         *)
(* External collaborators (HTTP transport, moviepy, PIL, the platform API, *)
(* APScheduler) are nondeterministic choices over the outcomes their       *)
(* interfaces allow.  Strings whose content matters are sequences of       *)
(* Unicode code points.  Clip durations and timestamps are counted in      *)
(* ticks, TicksPerSecond ticks to the second.                              *)
(***************************************************************************)
EXTENDS Integers, Sequences, FiniteSets, TLC

\* ------------------------------------------------------------------ bounds

\* How many times the scheduler fires a job in one behaviour.
MaxFirings == 2

\* Length of the transport script offered to one _download_file call.
ScriptLen == 4

\* How many intermediate (falsy) responses one upload can receive.
MaxChunks == 1

\* Grid of the time axis: ticks per second.
TicksPerSecond == 2

\* The clip durations, in ticks, a video file can report: about a second and
\* a half, two seconds, three seconds.
Durations ==
    {TicksPerSecond + TicksPerSecond \div 2, 2 * TicksPerSecond,
     3 * TicksPerSecond}

\* The provider asset ids a search response can carry.  Two ids give two
\* runs the same download path or different ones.
VideoIds == {1, 2}

\* ----------------------------------------------------------------- strings

\* The code points of the string literals the program uses.
Chars(s) ==
    CASE s = "fitness" -> <<102, 105, 116, 110, 101, 115, 115>>
      [] s = "cooking" -> <<99, 111, 111, 107, 105, 110, 103>>
      [] s = "5 Second " -> <<53, 32, 83, 101, 99, 111, 110, 100, 32>>
      [] s = " Hacks! " -> <<32, 72, 97, 99, 107, 115, 33, 32>>
      [] s = "Amazing " -> <<65, 109, 97, 122, 105, 110, 103, 32>>
      [] s = " tips you need to try!" ->
            <<32, 116, 105, 112, 115, 32, 121, 111, 117, 32, 110, 101, 101,
              100, 32, 116, 111, 32, 116, 114, 121, 33>>
      [] s = "shorts" -> <<115, 104, 111, 114, 116, 115>>
      [] s = "viral" -> <<118, 105, 114, 97, 108>>

\* The four characters that follow "Hacks! " in the title literal of the
\* source file: U+00F0 U+0178 U+0161 U+20AC.
TitleSuffix == <<240, 376, 353, 8364>>

\* str.upper / str.lower on one code point (the ASCII letters).
Upper(c) == IF c >= 97 /\ c <= 122 THEN c - 32 ELSE c

Lower(c) == IF c >= 65 /\ c <= 90 THEN c + 32 ELSE c

\* str.capitalize(): first character upper-cased, the rest lower-cased.
Capitalize(s) ==
    [i \in 1..Len(s) |-> IF i = 1 THEN Upper(s[i]) ELSE Lower(s[i])]

\* ------------------------------------------------------------ configuration

Settings ==
    {"PEXELS_API_KEY", "YOUTUBE_CLIENT_SECRET", "YOUTUBE_CLIENT_ID",
     "YOUTUBE_REFRESH_TOKEN"}

\* What os.getenv can give for a name: None, "" or a non-empty string.
EnvValues == {"absent", "empty", "set"}

\* Python truthiness of an os.getenv result.
Truthy(v) == v = "set"

\* Config._validate with only the three YouTube settings checked.
ValidateDropsPexelsKey(e) ==
    \A s \in Settings \ {"PEXELS_API_KEY"} : Truthy(e[s])

\* Config._validate: TRUE when it returns, FALSE when it raises
\* EnvironmentError.
Validate(e) == \A s \in Settings : Truthy(e[s])

\* The niche list of the main program.
NicheConfigs ==
    {[niche |-> "fitness", query |-> "exercise motivation"],
     [niche |-> "cooking", query |-> "kitchen hacks"]}

Niches == {c.niche : c \in NicheConfigs}

QueryOf(n) == (CHOOSE c \in NicheConfigs : c.niche = n).query


\* ------------------------------------------------------------- file system

\* CONTENT_DIR / f"pexels_{video['id']}.mp4"
PexelsPath(id) == "content/pexels_" \o ToString(id) \o ".mp4"

\* TEMP_DIR / "processed.mp4"
ProcessedPath == "temp/processed.mp4"

\* TEMP_DIR / "thumbnail.jpg"
ThumbnailPath == "temp/thumbnail.jpg"

NoPath == "<unset>"

Paths == {PexelsPath(i) : i \in VideoIds} \cup {ProcessedPath, ThumbnailPath}

\* What a media file holds: the stage that wrote it and the provider asset
\* (its id) the content derives from.
Content(stage, video) == [stage |-> stage, video |-> video]

\* No provider asset.
NoVideo == 0

\* A file system is a function from the paths that exist to their content.
ExistsIn(fs, p) == p \in DOMAIN fs

\* Opening for writing with exclusive creation ("xb"): fails on an
\* existing file.
WriteFileExclusive(fs, p, c) ==
    [ok |-> ~ExistsIn(fs, p),
     files |-> IF ExistsIn(fs, p) THEN fs
               ELSE [q \in DOMAIN fs \cup {p} |-> IF q = p THEN c ELSE fs[q]]]

\* open(path, "wb") + write, write_videofile, img.save: create or replace.
WriteFile(fs, p, c) ==
    [ok |-> TRUE,
     files |-> [q \in DOMAIN fs \cup {p} |-> IF q = p THEN c ELSE fs[q]]]

\* Path.unlink that ignores missing_ok.
UnlinkStrict(fs, p, missing_ok) ==
    [raised |-> ~ExistsIn(fs, p),
     files |-> [q \in DOMAIN fs \ {p} |-> fs[q]]]

\* Path.unlink(missing_ok): FileNotFoundError on a missing file unless
\* missing_ok.
Unlink(fs, p, missing_ok) ==
    [raised |-> ~ExistsIn(fs, p) /\ ~missing_ok,
     files |-> [q \in DOMAIN fs \ {p} |-> fs[q]]]

\* for f in [video_path, edited_path, thumbnail_path]:
\*     f.unlink(missing_ok=True)
\* The loop stops at the first unlink that raises.
RECURSIVE CleanupFrom(_, _, _)
CleanupFrom(fs, ps, i) ==
    IF i > Len(ps) THEN [raised |-> FALSE, files |-> fs]
    ELSE LET u == Unlink(fs, ps[i], TRUE)
         IN  IF u.raised THEN [raised |-> TRUE, files |-> fs]
             ELSE CleanupFrom(u.files, ps, i + 1)

CleanupFiles(fs, ps) == CleanupFrom(fs, ps, 1)

\* --------------------------------------------------------------- downloader

\* range(3) of _download_file.
DownloadAttempts == 3

\* One transport script: what session.get + raise_for_status does on the
\* 1st, 2nd, ... call: "ok", or "fail" (a RequestException).  The loop stops
\* at the first "ok", so the scripts are those that fail k times and then
\* succeed, k in 0..ScriptLen.
FailsThenOk(k) == [i \in 1..ScriptLen |-> IF i <= k THEN "fail" ELSE "ok"]

Scripts == {FailsThenOk(k) : k \in 0..ScriptLen}

\* The retry loop of _download_file from attempt number `attempt` (0-based)
\* with `limit` attempts allowed.
RECURSIVE DownloadLoop(_, _, _, _, _, _)
DownloadLoop(limit, attempt, script, fs, path, c) ==
    IF attempt >= limit
    THEN [error |-> "ConnectionError", attempts |-> attempt,
          warnings |-> attempt, files |-> fs]
    ELSE IF script[attempt + 1] = "ok"
         THEN LET w == WriteFile(fs, path, c)
              IN  [error |-> IF w.ok THEN "" ELSE "OSError",
                   attempts |-> attempt + 1, warnings |-> attempt,
                   files |-> w.files]
         ELSE DownloadLoop(limit, attempt + 1, script, fs, path, c)

\* _download_file with one attempt too many.
DownloadFileOffByOne(script, fs, path, c) ==
    DownloadLoop(DownloadAttempts + 1, 0, script, fs, path, c)

\* ContentDownloader._download_file
DownloadFile(script, fs, path, c) ==
    DownloadLoop(DownloadAttempts, 0, script, fs, path, c)

NoDownload(error, fs) ==
    [error |-> error, video_path |-> NoPath, attempts |-> 0, warnings |-> 0,
     files |-> fs]

WithPath(d, path) ==
    [error |-> d.error,
     video_path |-> IF d.error = "" THEN path ELSE NoPath,
     attempts |-> d.attempts, warnings |-> d.warnings, files |-> d.files]

\* get_pexels_video without the empty-result check: the download of the
\* picked asset is attempted whatever the result set holds.
GetPexelsVideoUnchecked(search, videos, pick, script, c, fs) ==
    IF search = "error" THEN NoDownload("SearchError", fs)
    ELSE WithPath(DownloadFile(script, fs, PexelsPath(pick), c),
                  PexelsPath(pick))

\* ContentDownloader.get_pexels_video.  search: the outcome of the search
\* request; videos: the ids of the candidates in the response; pick: the
\* candidate random.choice returns; script, c: the transport's behaviour and
\* the binary it serves.
GetPexelsVideo(search, videos, pick, script, c, fs) ==
    IF search = "error" THEN NoDownload("SearchError", fs)
    ELSE IF videos = {} THEN NoDownload("NoVideos", fs)
    ELSE WithPath(DownloadFile(script, fs, PexelsPath(pick), c),
                  PexelsPath(pick))

\* ------------------------------------------------------------------- editor

\* The local music directory: absent, present without any *.mp3, or present
\* with at least one track.
\* The music field of a run whose process_video has not looked at the
\* music directory.
NoMusic == "<unread>"

MusicStates == {"absent", "empty", "tracks"}

\* VideoEditor.process_video.  outcome: what moviepy does ("ok" or "error":
\* corrupt input, missing font, encode failure); music: the music directory.
\* random.choice of an empty glob raises IndexError.
ProcessVideo(fs, input_path, output_path, outcome, music) ==
    IF ~ExistsIn(fs, input_path)
    THEN [error |-> "FileNotFound", mixed |-> FALSE, files |-> fs]
    ELSE IF outcome = "error"
    THEN [error |-> "ProcessingError", mixed |-> FALSE, files |-> fs]
    ELSE IF music = "empty"
    THEN [error |-> "IndexError", mixed |-> FALSE, files |-> fs]
    ELSE LET w == WriteFile(fs, output_path,
                     Content("processed", fs[input_path].video))
         IN  [error |-> IF w.ok THEN "" ELSE "OSError",
              mixed |-> w.ok /\ music = "tracks",
              files |-> w.files]

\* ---------------------------------------------------------------- thumbnail

Min(a, b) == IF a <= b THEN a ELSE b

Max(a, b) == IF a >= b THEN a ELSE b

\* random.uniform(a, b): a value N with a <= N <= b for a <= b and
\* b <= N <= a for b < a; here every grid point of that interval.
Uniform(a, b) == Min(a, b)..Max(a, b)

\* The timestamps generate can sample from a clip of `dur` ticks:
\* random.uniform(1, clip.duration-1).
SampleTimes(dur) == Uniform(TicksPerSecond, dur - TicksPerSecond)

\* clip.get_frame(t): a frame of the clip for a t inside it; outside it the
\* library may give a frame or raise.
FrameOutcomes(t, dur) ==
    IF t >= 0 /\ t <= dur THEN {"ok"} ELSE {"ok", "error"}

\* ThumbnailGenerator.generate.  t: the sampled timestamp (the clip's
\* duration is read from the file); frame: what get_frame does; outcome: what
\* PIL does (drawing, saving).  sampled: whether a frame at t was taken and
\* the image saved.
Generate(fs, video_path, output_path, t, frame, outcome) ==
    IF ~ExistsIn(fs, video_path)
    THEN [error |-> "FileNotFound", sampled |-> FALSE, files |-> fs]
    ELSE IF frame = "error" \/ outcome = "error"
    THEN [error |-> "ThumbnailError", sampled |-> FALSE, files |-> fs]
    ELSE LET w == WriteFile(fs, output_path,
                     Content("thumbnail", fs[video_path].video))
         IN  [error |-> IF w.ok THEN "" ELSE "OSError", sampled |-> TRUE,
              files |-> w.files]

\* ----------------------------------------------------------------- metadata

\* The metadata dict run_pipeline builds; the query is not used.
Metadata(niche, query) ==
    [title |-> Chars("5 Second ") \o Capitalize(Chars(niche))
               \o Chars(" Hacks! ") \o TitleSuffix,
     description |-> Chars("Amazing ") \o Chars(niche)
                     \o Chars(" tips you need to try!"),
     tags |-> <<niche, "shorts", "viral">>,
     niche |-> niche]

NoMetadata == [title |-> <<>>, description |-> <<>>, tags |-> <<>>, niche |-> ""]

\* ----------------------------------------------------------------- uploader

\* What request.next_chunk() can return as its response: None, an empty
\* dict, a dict without "id", a dict whose "id" is "", a dict with an id.
Responses == {"none", "empty", "no_id", "id_empty", "id_ok"}

\* Python truthiness of a response: None and {} are falsy.
ResponseTruthy(r) == r \notin {"none", "empty"}

HasId(r) == r \in {"id_empty", "id_ok"}

\* response["id"]
IdOf(r) == IF r = "id_ok" THEN "vid" ELSE ""

NoId == "<none>"


\* -------------------------------------------------------------------- state

VARIABLES
    env,           \* the process environment: setting -> EnvValues
    mainpc,        \* where the main program is
    service,       \* YouTubeUploader.service: "none" or "built"
    jobs,          \* the niches with a job registered in the scheduler
    started,       \* whether the background scheduler is running
    runs,          \* niche -> its current or last run_pipeline call
    files,         \* the local file system: existing path -> content
    fired,         \* how many times the scheduler has fired a job
    auth_count     \* how many times _authenticate has built a client

vars ==
    <<env, mainpc, service, jobs, started, runs, files, fired, auth_count>>

\* A run_pipeline call that has not started.  A record holds the locals of
\* run_pipeline (the three paths, metadata, video_id), what the callee that
\* returned or raised last left (attempts and warnings of _download_file;
\* sampled, timestamp and clip_duration of generate; chunks, response and
\* the content handed to the platform of upload_video; whether the cleanup
\* loop met a missing file), the exception that ended the call (a callee
\* that raises leaves only its exception, and the warnings _download_file
\* has logged), and whether no other run has been active during it (solo).
\* When run_pipeline returns or raises, its own locals are gone too.
\* auth_seen is the number of clients built when the run started, client
\* the number of the client (self.uploader.service) its upload uses, 0
\* before the upload.  calls lists the stages run_pipeline has invoked;
\* music is the state in which process_video found the music directory
\* and mixed whether it set a track; chunks counts the next_chunk calls
\* of the upload, upload is the upload's phase, api the requests executed
\* on the platform, thumb_key the videoId of the thumbnail-set request and
\* attached whether that request succeeded.
IdleRun ==
    [pc |-> "idle",
     video_path |-> NoPath, edited_path |-> NoPath, thumbnail_path |-> NoPath,
     attempts |-> 0, warnings |-> 0,
     sampled |-> FALSE, timestamp |-> 0, clip_duration |-> 0,
     metadata |-> NoMetadata,
     chunks |-> 0, response |-> "none",
     up_video |-> NoVideo, up_thumb |-> NoVideo,
     missing_at_cleanup |-> FALSE,
     video_id |-> NoId, error |-> "",
     solo |-> TRUE,
     auth_seen |-> 0, client |-> 0,
     calls |-> <<>>,
     music |-> NoMusic, mixed |-> FALSE,
     upload |-> "none", api |-> {},
     thumb_key |-> NoId, attached |-> FALSE]

\* The record when run_pipeline makes its next call: what the previous
\* callee left is gone.
AtCall(r) ==
    [r EXCEPT !.attempts = 0, !.warnings = 0,
              !.sampled = FALSE, !.timestamp = 0, !.clip_duration = 0,
              !.chunks = 0, !.response = "none",
              !.up_video = NoVideo, !.up_thumb = NoVideo,
              !.music = NoMusic, !.mixed = FALSE]

Active(r) == r.pc \notin {"idle", "done", "failed"}

Init ==
    /\ env \in [Settings -> EnvValues]
    /\ mainpc = "start"
    /\ service = "none"
    /\ jobs = {}
    /\ started = FALSE
    /\ runs = [n \in Niches |-> IdleRun]
    /\ files = <<>>
    /\ fired = 0
    /\ auth_count = 0

\* ------------------------------------------------------------- main program

\* ContentScheduler.__init__: the components are built in order; the first
\* Config() validates the environment; the font load and the API client
\* build can fail.
Construct ==
    /\ mainpc = "start"
    /\ IF ~Validate(env)
       THEN /\ mainpc' = "config_error"
            /\ service' = service
            /\ auth_count' = auth_count
       ELSE \E outcome \in {"ok", "error"} :
               IF outcome = "ok"
               THEN /\ mainpc' = "constructed"
                    /\ service' = "built"
                    /\ auth_count' = auth_count + 1
               ELSE /\ mainpc' = "init_error"
                    /\ service' = service
                    /\ auth_count' = auth_count
    /\ UNCHANGED <<env, jobs, started, runs, files, fired>>

\* ContentScheduler.schedule_daily_uploads: one job per niche, then start.
ScheduleDailyUploads ==
    /\ mainpc = "constructed"
    /\ jobs' = jobs \cup Niches
    /\ started' = TRUE
    /\ mainpc' = "waiting"
    /\ UNCHANGED <<env, service, runs, files, fired, auth_count>>

\* The wait loop of the main program: time is not imported, so the first
\* time.sleep(1) raises NameError, which the except clause does not catch.
\* The runs already in worker threads go on to their end.
MainLoop ==
    /\ mainpc = "waiting"
    /\ mainpc' = "name_error"
    /\ UNCHANGED <<env, service, jobs, started, runs, files, fired,
                   auth_count>>

\* A KeyboardInterrupt inside the try block: scheduler.shutdown().
Interrupt ==
    /\ mainpc = "waiting"
    /\ mainpc' = "shutdown"
    /\ started' = FALSE
    /\ UNCHANGED <<env, service, jobs, runs, files, fired, auth_count>>

\* ---------------------------------------------------------------- pipeline

\* A variant of the except clause of run_pipeline that logs the exception
\* and does not raise it again: the call returns.
RaisedNotReraised(r, e) ==
    [r EXCEPT !.pc = "done", !.error = e,
              !.video_path = NoPath, !.edited_path = NoPath,
              !.thumbnail_path = NoPath, !.metadata = NoMetadata]

\* The run record after its run_pipeline call raised `e`.
Raised(r, e) ==
    [r EXCEPT !.pc = "failed", !.error = e,
              !.video_path = NoPath, !.edited_path = NoPath,
              !.thumbnail_path = NoPath, !.metadata = NoMetadata]

\* The run record after its run_pipeline call returned.
Returned(r) ==
    [r EXCEPT !.pc = "done",
              !.video_path = NoPath, !.edited_path = NoPath,
              !.thumbnail_path = NoPath, !.metadata = NoMetadata]

\* The effect of one stage of niche n's run: its new record and the new
\* file system.
Step(n, r, fs) ==
    /\ runs' = [runs EXCEPT ![n] = r]
    /\ files' = fs
    /\ UNCHANGED <<env, mainpc, service, jobs, started, fired, auth_count>>

\* The scheduler fires niche n's job: run_pipeline(niche, query) starts in
\* a worker thread.  A job has at most one running instance; jobs of
\* different niches can run at the same time.
Fire(n) ==
    /\ mainpc = "waiting"
    /\ started
    /\ n \in jobs
    /\ ~Active(runs[n])
    /\ fired < MaxFirings
    /\ fired' = fired + 1
    /\ runs' = [m \in Niches |->
                  IF m = n
                  THEN [IdleRun EXCEPT
                          !.pc = "download",
                          !.auth_seen = auth_count,
                          !.solo = \A o \in Niches \ {n} : ~Active(runs[o])]
                  ELSE IF Active(runs[m])
                  THEN [runs[m] EXCEPT !.solo = FALSE]
                  ELSE runs[m]]
    /\ UNCHANGED <<env, mainpc, service, jobs, started, files, auth_count>>

\* video_path = self.downloader.get_pexels_video(query)
Download(n) ==
    /\ runs[n].pc = "download"
    /\ \E search \in {"ok", "error"}, videos \in SUBSET VideoIds,
          pick \in VideoIds, script \in Scripts :
          /\ videos # {} => pick \in videos
          /\ LET d == GetPexelsVideo(search, videos, pick, script,
                                     Content("download", pick), files)
                 r == [AtCall(runs[n]) EXCEPT !.attempts = d.attempts,
                                              !.warnings = d.warnings,
                                              !.video_path = d.video_path,
                                              !.calls = Append(@, "download")]
             IN  Step(n, IF d.error = "" THEN [r EXCEPT !.pc = "edit"]
                         ELSE Raised(r, d.error),
                      d.files)

\* edited_path = self.editor.process_video(video_path, TEMP_DIR /
\* "processed.mp4", text=...)
Edit(n) ==
    /\ runs[n].pc = "edit"
    /\ \E outcome \in {"ok", "error"}, music \in MusicStates :
          LET p == ProcessVideo(files, runs[n].video_path, ProcessedPath,
                                outcome, music)
              r == [AtCall(runs[n]) EXCEPT !.music = music,
                                           !.mixed = p.mixed,
                                           !.calls = Append(@, "edit")]
          IN  Step(n, IF p.error = ""
                      THEN [r EXCEPT !.pc = "thumbnail",
                                     !.edited_path = ProcessedPath]
                      ELSE Raised(r, p.error),
                   p.files)

\* thumbnail_path = self.thumbnailer.generate(edited_path, TEMP_DIR /
\* "thumbnail.jpg", text=...)
Thumbnail(n) ==
    /\ runs[n].pc = "thumbnail"
    /\ \E dur \in Durations, outcome \in {"ok", "error"} :
       \E t \in SampleTimes(dur) :
       \E frame \in FrameOutcomes(t, dur) :
          LET g == Generate(files, runs[n].edited_path, ThumbnailPath,
                            t, frame, outcome)
              c == [AtCall(runs[n]) EXCEPT !.calls = Append(@, "thumbnail")]
              r == IF g.sampled
                   THEN [c EXCEPT !.sampled = TRUE,
                                  !.timestamp = t,
                                  !.clip_duration = dur]
                   ELSE c
          IN  Step(n, IF g.error = ""
                      THEN [r EXCEPT !.pc = "upload",
                                     !.thumbnail_path = ThumbnailPath]
                      ELSE Raised(r, g.error),
                   g.files)

\* The metadata dict, then upload_video up to the insert request:
\* MediaFileUpload opens the video file.
UploadStart(n) ==
    /\ runs[n].pc = "upload"
    /\ LET r == [AtCall(runs[n]) EXCEPT
                    !.metadata = Metadata(n, QueryOf(n)),
                    !.client = auth_count,
                    !.calls = Append(@, "upload")]
           src == runs[n].edited_path
       IN  Step(n, IF ExistsIn(files, src)
                   THEN [r EXCEPT !.pc = "uploading",
                                  !.upload = "uploading",
                                  !.up_video = files[src].video]
                   ELSE Raised(r, "FileNotFound"),
                files)

\* A variant of _execute_upload that takes the first response of
\* next_chunk, intermediate or not, as the end of the upload.
NextChunkStopsEarly(n) ==
    /\ runs[n].pc = "uploading"
    /\ LET r == [runs[n] EXCEPT !.chunks = @ + 1,
                                !.api = @ \cup {"videos.insert"}]
       IN  \/ Step(n, Raised([r EXCEPT !.upload = "failed"], "ChunkError"),
                   files)
           \/ \E resp \in Responses :
                 Step(n, [r EXCEPT !.pc = "thumbset",
                                   !.upload = "completed",
                                   !.response = resp], files)

\* One iteration of the loop of _execute_upload: next_chunk raises, or
\* gives a response; the loop ends at the first truthy response.  The
\* first chunk request executes the insert request.
NextChunk(n) ==
    /\ runs[n].pc = "uploading"
    /\ LET r == [runs[n] EXCEPT !.chunks = @ + 1,
                                !.api = @ \cup {"videos.insert"}]
       IN  \/ Step(n, Raised([r EXCEPT !.upload = "failed"], "ChunkError"),
                   files)
           \/ \E resp \in Responses :
                 IF ResponseTruthy(resp)
                 THEN Step(n, [r EXCEPT !.pc = "thumbset",
                                        !.upload = "completed",
                                        !.response = resp], files)
                 ELSE /\ runs[n].chunks < MaxChunks
                      /\ Step(n, r, files)

\* A variant of upload_video that ignores a failure of the thumbnail-set
\* request and returns the id.
ThumbnailSetIgnoresFailure(n) ==
    /\ runs[n].pc = "thumbset"
    /\ LET r == runs[n]
           src == runs[n].thumbnail_path
           x == [r EXCEPT !.up_video = NoVideo]
           y == [r EXCEPT !.api = @ \cup {"thumbnails.set"},
                          !.thumb_key = IdOf(r.response)]
       IN  IF ~HasId(r.response) THEN Step(n, Raised(x, "KeyError"), files)
           ELSE IF ~ExistsIn(files, src)
           THEN Step(n, Raised(x, "FileNotFound"), files)
           ELSE \E outcome \in {"ok", "error"} :
                   Step(n, [y EXCEPT !.pc = "cleanup",
                                     !.up_thumb = files[src].video,
                                     !.attached = (outcome = "ok"),
                                     !.video_id = IdOf(r.response)],
                        files)

\* thumbnails().set(videoId=response["id"],
\* media_body=MediaFileUpload(thumbnail_path)).execute(), then
\* return response["id"].
ThumbnailSet(n) ==
    /\ runs[n].pc = "thumbset"
    /\ LET r == runs[n]
           src == runs[n].thumbnail_path
           x == [r EXCEPT !.up_video = NoVideo]
           y == [r EXCEPT !.api = @ \cup {"thumbnails.set"},
                          !.thumb_key = IdOf(r.response)]
       IN  IF ~HasId(r.response) THEN Step(n, Raised(x, "KeyError"), files)
           ELSE IF ~ExistsIn(files, src)
           THEN Step(n, Raised(x, "FileNotFound"), files)
           ELSE \E outcome \in {"ok", "error"} :
                   Step(n, IF outcome = "ok"
                           THEN [y EXCEPT !.pc = "cleanup",
                                          !.up_thumb = files[src].video,
                                          !.attached = TRUE,
                                          !.video_id = IdOf(r.response)]
                           ELSE Raised([y EXCEPT !.up_video = NoVideo],
                                       "ThumbSetError"),
                        files)

\* The three intermediate paths of a run, in the order of the cleanup loop.
CleanupPaths(r) == <<r.video_path, r.edited_path, r.thumbnail_path>>

\* The cleanup loop of run_pipeline, then return video_id.
Cleanup(n) ==
    /\ runs[n].pc = "cleanup"
    /\ LET ps == CleanupPaths(runs[n])
           c == CleanupFiles(files, ps)
           r == [AtCall(runs[n]) EXCEPT
                    !.missing_at_cleanup =
                        \E i \in 1..3 : ~ExistsIn(files, ps[i]),
                    !.calls = Append(@, "cleanup")]
       IN  Step(n, IF c.raised THEN Raised(r, "CleanupError")
                   ELSE Returned(r),
                c.files)

Next ==
    \/ Construct
    \/ ScheduleDailyUploads
    \/ MainLoop
    \/ Interrupt
    \/ \E n \in Niches :
          \/ Fire(n)
          \/ Download(n)
          \/ Edit(n)
          \/ Thumbnail(n)
          \/ UploadStart(n)
          \/ NextChunk(n)
          \/ ThumbnailSet(n)
          \/ Cleanup(n)

Spec == Init /\ [][Next]_vars

\* ------------------------------------------------------------------ claims

Range(f) == {f[i] : i \in DOMAIN f}

Restrict(fs, S) == [q \in DOMAIN fs \cap S |-> fs[q]]

DownloadPaths == {PexelsPath(i) : i \in VideoIds}

\* C1: run_pipeline never returns an empty or falsy video identifier: a run
\* that has returned carries a non-empty id.
C1_ReturnsNonEmptyId ==
    \A n \in Niches :
        runs[n].pc = "done" => runs[n].video_id \notin {"", NoId}

\* C2: the binary download makes at most 3 attempts and stops at the first
\* success: failing k times then succeeding (k in 0..2) returns the file
\* after k+1 attempts with k warnings; failing every time raises after
\* exactly 3 attempts and 3 warnings, with no 4th attempt.
C2_DownloadRetry ==
    /\ \A n \in Niches :
          /\ runs[n].attempts <= 3
          /\ runs[n].pc = "edit" =>
                /\ runs[n].attempts = runs[n].warnings + 1
                /\ runs[n].warnings \in 0..2
          /\ runs[n].error = "ConnectionError" =>
                runs[n].attempts = 3 /\ runs[n].warnings = 3
    /\ \A k \in 0..ScriptLen, i \in VideoIds, p \in DownloadPaths :
          LET c == Content("download", i)
              d == DownloadFile(FailsThenOk(k), files, p, c)
          IN  IF k <= 2
              THEN /\ d.error = ""
                   /\ d.attempts = k + 1
                   /\ d.warnings = k
                   /\ ExistsIn(d.files, p) /\ d.files[p] = c
              ELSE /\ d.error = "ConnectionError"
                   /\ d.attempts = 3
                   /\ d.warnings = 3
                   /\ d.files = files

\* A run whose download failed twice and then succeeded, and a run whose
\* download failed on every attempt.
C2_Witness ==
    /\ \E n \in Niches :
          runs[n].pc = "edit" /\ runs[n].warnings = 2 /\ runs[n].attempts = 3
    /\ \E n \in Niches :
          runs[n].pc = "failed" /\ runs[n].error = "ConnectionError"

\* C3: a search response with zero candidates makes get_pexels_video raise
\* the no-results error with no download attempt and no file written.
C3_EmptySearch ==
    /\ \A n \in Niches :
          runs[n].error = "NoVideos" =>
             runs[n].attempts = 0 /\ runs[n].warnings = 0
    /\ \A pick \in VideoIds, script \in Scripts :
          LET d == GetPexelsVideo("ok", {}, pick, script,
                                  Content("download", pick), files)
          IN  /\ d.error = "NoVideos"
              /\ d.attempts = 0
              /\ d.video_path = NoPath
              /\ d.files = files

\* A run that ended with the no-results error.
C3_Witness ==
    \E n \in Niches : runs[n].pc = "failed" /\ runs[n].error = "NoVideos"

\* The exceptions a stage raises on its own account: its external service
\* or its input data failed.  FileNotFound and OSError come from the state
\* of the local files.
OwnStageErrors ==
    {"SearchError", "NoVideos", "ConnectionError", "ProcessingError",
     "IndexError", "ThumbnailError", "ChunkError", "KeyError",
     "ThumbSetError"}

C5_PathsDistinct ==
    \A n \in Niches, m \in Niches :
        (n # m /\ Active(runs[n]) /\ Active(runs[m])) =>
            /\ runs[n].video_path # NoPath =>
                  runs[n].video_path # runs[m].video_path
            /\ runs[n].edited_path # NoPath =>
                  runs[n].edited_path # runs[m].edited_path
            /\ runs[n].thumbnail_path # NoPath =>
                  runs[n].thumbnail_path # runs[m].thumbnail_path

\* The provider asset a run has downloaded.
VideoOf(r) == CHOOSE i \in VideoIds : PexelsPath(i) = r.video_path

\* C6: runs are independent: a run that reaches the upload hands over the
\* processed video made from its own download and the thumbnail made from
\* that video, and no run fails because a file it needs was removed.
C6_RunsIndependent ==
    \A n \in Niches :
        /\ (Active(runs[n]) /\ runs[n].up_video # NoVideo)
              => runs[n].up_video = VideoOf(runs[n])
        /\ (Active(runs[n]) /\ runs[n].up_thumb # NoVideo)
              => runs[n].up_thumb = VideoOf(runs[n])
        /\ runs[n].pc = "failed" => runs[n].error # "FileNotFound"

\* C7: the cleanup tolerates missing files and is idempotent: whichever of
\* the three intermediate files are already absent, the cleanup does not
\* raise and leaves all three absent, and so does a second cleanup right
\* after the first.
C7_CleanupIdempotent ==
    \A n \in Niches :
        /\ runs[n].error # "CleanupError"
        /\ runs[n].pc = "cleanup" =>
              LET ps == CleanupPaths(runs[n])
              IN  \A S \in SUBSET Range(ps) :
                     LET fs0 == Restrict(files, DOMAIN files \ S)
                         c1 == CleanupFiles(fs0, ps)
                         c2 == CleanupFiles(c1.files, ps)
                     IN  /\ ~c1.raised
                         /\ DOMAIN c1.files = DOMAIN fs0 \ Range(ps)
                         /\ ~c2.raised
                         /\ c2.files = c1.files

\* A run that returned after its cleanup met an already missing file.
C7_Witness ==
    \E n \in Niches : runs[n].pc = "done" /\ runs[n].missing_at_cleanup

\* C8: a sampled frame timestamp t satisfies 1 < t < duration-1 (in
\* seconds), and a clip of 2 seconds or less makes generate raise instead of
\* sampling.
C8_ThumbnailSampling ==
    \A n \in Niches :
        runs[n].sampled =>
            /\ runs[n].clip_duration > 2 * TicksPerSecond
            /\ runs[n].timestamp > TicksPerSecond
            /\ runs[n].timestamp < runs[n].clip_duration - TicksPerSecond

\* C9: with any of the four required settings absent or empty, startup ends
\* in the configuration error before any job is registered, any pipeline
\* stage runs or any client is built, and is not tried again; with all four
\* set, configuration loading does not fail.
C9_ConfigFailFast ==
    LET complete == \A s \in Settings : env[s] = "set"
    IN  /\ ~complete =>
              /\ mainpc \in {"start", "config_error"}
              /\ jobs = {} /\ ~started /\ service = "none"
              /\ fired = 0 /\ files = <<>>
              /\ \A n \in Niches : runs[n] = IdleRun
        /\ mainpc = "config_error" => ~complete /\ ~ENABLED Next
        /\ complete => mainpc # "config_error"

\* Startup aborted with one setting empty and the other three set.
C9_Witness ==
    /\ mainpc = "config_error"
    /\ env["PEXELS_API_KEY"] = "empty"
    /\ \A s \in Settings \ {"PEXELS_API_KEY"} : env[s] = "set"

\* "5 Second Fitness Hacks! " followed by U+1F680 ROCKET.
ExpectedFitnessTitle ==
    <<53, 32, 83, 101, 99, 111, 110, 100, 32,
      70, 105, 116, 110, 101, 115, 115,
      32, 72, 97, 99, 107, 115, 33, 32, 128640>>

\* C10: the metadata handed to the uploader is a function of the niche and
\* query alone, and for niche "fitness" the title is "5 Second Fitness
\* Hacks! " plus the rocket and the tags include "fitness", "shorts" and
\* "viral".
C10_Metadata ==
    \A n \in Niches :
        runs[n].metadata # NoMetadata =>
            /\ \A m \in Niches :
                  (runs[m].metadata # NoMetadata
                   /\ runs[m].metadata.niche = runs[n].metadata.niche)
                     => runs[m].metadata = runs[n].metadata
            /\ runs[n].metadata.niche = "fitness" =>
                  /\ runs[n].metadata.title = ExpectedFitnessTitle
                  /\ {"fitness", "shorts", "viral"}
                        \subseteq Range(runs[n].metadata.tags)

\* C11: when a run that no other run overlaps ends, by returning or by
\* raising, none of the intermediate files it wrote remains on disk.  With
\* one firing, every file on disk was written by that run.
C11_FilesDeletedAtEnd ==
    \A n \in Niches :
        (fired = 1 /\ runs[n].pc \in {"done", "failed"}) => files = <<>>

\* C15: each run that reaches the upload uses a client built from the
\* refresh token during that run, so no client built before the run
\* started is used by it.
C15_FreshClientPerRun ==
    \A n \in Niches :
        runs[n].client # 0 => runs[n].client > runs[n].auth_seen

\* C17: once the jobs are registered and the scheduler started, the main
\* program stays in its wait loop until a keyboard interrupt shuts the
\* scheduler down; until then every niche's job stays registered and the
\* process alive.
C17_WaitsForInterrupt ==
    (started /\ mainpc # "shutdown") =>
        mainpc = "waiting" /\ jobs = Niches

\* The stages of run_pipeline in the order of its calls.
StageOrder == <<"download", "edit", "thumbnail", "upload", "cleanup">>

\* The exceptions each stage can raise.
StageErrors(stage) ==
    CASE stage = "download" -> {"SearchError", "NoVideos", "ConnectionError"}
      [] stage = "edit" ->
            {"FileNotFound", "ProcessingError", "IndexError", "OSError"}
      [] stage = "thumbnail" -> {"FileNotFound", "ThumbnailError"}
      [] stage = "upload" ->
            {"FileNotFound", "ChunkError", "KeyError", "ThumbSetError"}
      [] stage = "cleanup" -> {"CleanupError"}

\* How many stages a run at `pc` has invoked.
CallsAt(pc) ==
    CASE pc \in {"idle", "download"} -> 0
      [] pc = "edit" -> 1
      [] pc = "thumbnail" -> 2
      [] pc = "upload" -> 3
      [] pc \in {"uploading", "thumbset", "cleanup"} -> 4
      [] pc = "done" -> 5

IsPrefix(s, t) ==
    Len(s) <= Len(t) /\ \A i \in 1..Len(s) : s[i] = t[i]

\* C12: a run invokes its stages in the order download, edit, thumbnail,
\* upload, cleanup, each at most once and each only after the one before
\* it returned; when a stage raises, no later stage is invoked (nothing
\* reaches the platform unless download, edit and thumbnail succeeded) and
\* run_pipeline raises the exception of that stage.
C12_StageOrder ==
    \A n \in Niches :
        LET r == runs[n]
            c == r.calls
        IN  /\ IsPrefix(c, StageOrder)
            /\ r.pc # "failed" => Len(c) = CallsAt(r.pc) /\ r.error = ""
            /\ r.pc = "failed" =>
                  c # <<>> /\ r.error \in StageErrors(c[Len(c)])
            /\ (r.upload # "none" \/ r.api # {}) =>
                  /\ Len(c) >= 4
                  /\ r.error \notin
                        UNION {StageErrors(StageOrder[i]) : i \in 1..3}
                           \ StageErrors("upload")

C12_Witness ==
    \E n \in Niches :
        /\ runs[n].pc = "failed"
        /\ runs[n].error = "ThumbnailError"
        /\ runs[n].calls = <<"download", "edit", "thumbnail">>

\* The phase of an upload: before the insert request it is that of the
\* client.
UploadPhase(r, svc) ==
    IF r.upload # "none" THEN r.upload
    ELSE IF svc = "built" THEN "authenticated" ELSE "unauthenticated"

UploadEdges ==
    {<<"unauthenticated", "authenticated">>,
     <<"authenticated", "uploading">>,
     <<"uploading", "completed">>,
     <<"uploading", "failed">>}

\* C13: an upload moves only along unauthenticated, authenticated,
\* uploading, then completed or failed.  A next-chunk request is issued
\* only while uploading; the upload stays uploading after an intermediate
\* response and completes at the first response the loop accepts; a chunk
\* request that raises makes it failed, with no further next-chunk request
\* and no thumbnail request; completed and failed are terminal.
C13_UploadPhases ==
    [][\A n \in Niches :
          LET r == runs[n]
              r2 == runs'[n]
              p == UploadPhase(r, service)
              q == UploadPhase(r2, service')
          IN  \/ ~Active(r) /\ r2.pc = "download"
              \/ /\ p = q \/ <<p, q>> \in UploadEdges
                 /\ r2.chunks > r.chunks =>
                       /\ p = "uploading"
                       /\ r2.chunks = r.chunks + 1
                       /\ q = IF r2.error = "ChunkError" THEN "failed"
                              ELSE IF ResponseTruthy(r2.response)
                              THEN "completed"
                              ELSE "uploading"
                 /\ (p = "uploading" /\ q # "uploading") =>
                       r2.chunks = r.chunks + 1
                 /\ q = "failed" =>
                       /\ r2.pc = "failed"
                       /\ r2.error = "ChunkError"
                       /\ "thumbnails.set" \notin r2.api
                 /\ p = "failed" => r2.chunks = r.chunks /\ r2.api = r.api
                 /\ p \in {"completed", "failed"} => q = p]_vars

C13_Witness ==
    \E n \in Niches :
        /\ runs[n].upload = "failed"
        /\ runs[n].error = "ChunkError"
        /\ runs[n].chunks > 1

\* The id of the video an upload has created: the id of the response the
\* loop accepted, which upload_video returns.
CreatedId(r) == IF HasId(r.response) THEN IdOf(r.response) ELSE r.video_id

\* C14: the thumbnail-set request is issued only after the upload loop
\* returned its response and carries the id of the created video.  When it
\* fails, upload_video raises without returning the id and issues no other
\* request, so the run is failed while the video exists on the platform
\* without a thumbnail.
C14_ThumbnailAfterUpload ==
    \A n \in Niches :
        LET r == runs[n]
        IN  /\ r.api \subseteq {"videos.insert", "thumbnails.set"}
            /\ "thumbnails.set" \in r.api =>
                  /\ r.upload = "completed"
                  /\ "videos.insert" \in r.api
                  /\ r.thumb_key = CreatedId(r)
            /\ r.attached => "thumbnails.set" \in r.api
            /\ ("thumbnails.set" \in r.api /\ ~r.attached) =>
                  /\ r.pc = "failed"
                  /\ r.error = "ThumbSetError"
                  /\ r.video_id = NoId
            /\ r.error = "ThumbSetError" =>
                  "thumbnails.set" \in r.api /\ ~r.attached

C14_Witness ==
    \E n \in Niches :
        /\ runs[n].pc = "failed"
        /\ runs[n].error = "ThumbSetError"
        /\ runs[n].upload = "completed"
        /\ runs[n].response = "id_ok"
        /\ runs[n].api = {"videos.insert", "thumbnails.set"}
        /\ ~runs[n].attached

\* C16: background music is optional: a track is mixed in only when the
\* music directory exists and holds at least one track; when it is absent
\* or empty, process_video skips the mix and, unless the editing itself
\* fails, writes its output and returns.
C16_MusicOptional ==
    \A n \in Niches :
        LET r == runs[n]
        IN  /\ r.mixed => r.music = "tracks"
            /\ (r.music \in {"absent", "empty"}
                  /\ r.error \notin {"FileNotFound", "ProcessingError"}) =>
                  /\ r.pc = "thumbnail"
                  /\ r.edited_path = ProcessedPath
                  /\ ~r.mixed

=============================================================================
